---- MODULE Spec2Model ----
(***************************************************************************)
(* bip-email: the chunking and reassembly engine (bip/email/chunker.py),   *)
(* the mail text extraction it reads (bip/email/gmail.py) and the index    *)
(* update that stores its chunks (bip/email/retriever.py).                 *)
(*                                                                         *)
(* Text is a sequence of lexemes (TLA+ strings): a lexeme is one character *)
(* of body text ("a", " ", "\n"), or one indivisible piece of a literal or *)
(* of a header value ("Sujet: ", "--DEBUT EXTRAIT--").                     *)
(***************************************************************************)
EXTENDS Integers, Sequences, FiniteSets, TLC

VARIABLES
    pc,          \* which call is pending or done
    message,     \* cut_message: the Gmail message
    chunk_size,  \* cut_message: the chunk_size argument
    cut_out,     \* cut_message: what the call produced
    glue_in,     \* glue_chunks: its arguments
    glue_out,    \* glue_chunks: what the call produced
    id_in,       \* chunk_id: the arguments of two calls
    id_out,      \* chunk_id: what the calls returned
    mailbox,     \* Retriever: the messages of the Gmail account, newest first
    _index,      \* Retriever: the vectors the index holds
    run          \* Retriever: what the last update_email_index call did

vars == <<pc, message, chunk_size, cut_out, glue_in, glue_out,
          id_in, id_out, mailbox, _index, run>>

\* Python's None, a value no text is equal to.
None == <<"<None>">>

\* ------------------------------------------------------------ bounds

\* Longest message text, in lexemes.
MaxLen == 32
\* Largest chunk_size handed to cut_message.
MaxChunkSize == 16
\* Longest ranked list handed to glue_chunks.
MaxRanked == 3
\* Largest max_tokens handed to glue_chunks.
MaxTokens == 13
\* Longest message id handed to chunk_id, in characters.
MaxIdLen == 2
\* Largest chunk index handed to chunk_id.
MaxIndex == 11

\* ------------------------------------------------------ Python helpers

Min(a, b) == IF a < b THEN a ELSE b

\* s[lo:hi] with 0 <= lo, 0 <= hi
Slice(s, lo, hi) == SubSeq(s, lo + 1, Min(hi, Len(s)))

\* range(0, n, step)
Range0(n, step) == [k \in 1..((n + step - 1) \div step) |-> (k - 1) * step]

\* str.find(sep) + 1: the 1-based place of the first occurrence, 0 if none
Find(s, sep) ==
    LET hits == {i \in 1..(Len(s) - Len(sep) + 1) :
                     SubSeq(s, i, i + Len(sep) - 1) = sep}
    IN  IF hits = {} THEN 0
        ELSE CHOOSE i \in hits : \A j \in hits : i <= j

\* str.split(sep): the parts between the non-overlapping occurrences of sep,
\* found left to right
RECURSIVE Split(_, _)
Split(s, sep) ==
    LET i == Find(s, sep)
    IN  IF i = 0 THEN <<s>>
        ELSE <<SubSeq(s, 1, i - 1)>> \o Split(SubSeq(s, i + Len(sep), Len(s)), sep)

\* sep.join(parts)
RECURSIVE Join(_, _)
Join(parts, sep) ==
    IF parts = <<>> THEN <<>>
    ELSE IF Len(parts) = 1 THEN parts[1]
    ELSE parts[1] \o sep \o Join(Tail(parts), sep)

\* ------------------------------------------------------------ bip.utils
\* The tokenizer: a codec between text and token ids, one token per lexeme.

\* The lexemes, in the order Python orders them as strings.
Vocab ==
    <<"\n", " ", " a ", " janvier 1970", " le ", "---", "--DEBUT EXTRAIT--",
      "--FIN EXTRAIT--", "01", "02", "03", "04", "05", "06", "07", "08",
      "09", "10", "<URL>", "Ann", "Bob", "Bye", "Hello", "No subject",
      "None", "Sujet: ", "a", "b", "c", "d", "dimanche ", "envoye par ",
      "http", "jeudi ", "lundi ", "mardi ", "mercredi ", "samedi ",
      "vendredi ">>

TokenOf(lexeme) == CHOOSE k \in 1..Len(Vocab) : Vocab[k] = lexeme

tokenize(text) == [i \in 1..Len(text) |-> TokenOf(text[i])]

detokenize(tokens) == [i \in 1..Len(tokens) |-> Vocab[tokens[i]]]

count_tokens(text) == Len(tokenize(text))

\* ----------------------------------------------------- bip.email.gmail

RECURSIVE get_header_value(_, _)
get_header_value(headers, name) ==
    IF headers = <<>> THEN None
    ELSE IF Head(headers).name = name THEN Head(headers).value
    ELSE get_header_value(Tail(headers), name)

\* The characters "." matches and \S matches, among the one-character lexemes.
DotChars == {" ", "a", "b", "c", "d"}
Whitespace == {"\n", " "}

\* The length of the longest prefix of s made of lexemes outside `stop`.
RECURSIVE SpanOutside(_, _)
SpanOutside(s, stop) ==
    IF s = <<>> \/ Head(s) \in stop THEN 0 ELSE 1 + SpanOutside(Tail(s), stop)

\* re.sub(r'http\S+', '<URL>', text)
RECURSIVE CleanUrls(_)
CleanUrls(s) ==
    IF s = <<>> THEN <<>>
    ELSE IF Head(s) = "http" /\ SpanOutside(Tail(s), Whitespace) >= 1
         THEN <<"<URL>">>
              \o CleanUrls(SubSeq(s, 2 + SpanOutside(Tail(s), Whitespace), Len(s)))
         ELSE <<Head(s)>> \o CleanUrls(Tail(s))

\* The number of times `unit` is repeated at the start of s.
RECURSIVE Repeats(_, _)
Repeats(s, unit) ==
    IF Len(s) >= Len(unit) /\ SubSeq(s, 1, Len(unit)) = unit
    THEN 1 + Repeats(SubSeq(s, Len(unit) + 1, Len(s)), unit)
    ELSE 0

\* re.sub(r'(.)\1{3,}', r'\1\1\1', text)
RECURSIVE CleanRuns(_)
CleanRuns(s) ==
    IF s = <<>> THEN <<>>
    ELSE LET c == Head(s)
             n == Repeats(s, <<c>>)
         IN  IF c \in DotChars /\ n >= 4
             THEN <<c, c, c>> \o CleanRuns(SubSeq(s, n + 1, Len(s)))
             ELSE <<c>> \o CleanRuns(Tail(s))

\* re.sub(r'(..)\1{3,}', r'\1\1', text)
RECURSIVE CleanPairs(_)
CleanPairs(s) ==
    IF Len(s) < 2 THEN s
    ELSE LET u == SubSeq(s, 1, 2)
             n == Repeats(s, u)
         IN  IF u[1] \in DotChars /\ u[2] \in DotChars /\ n >= 4
             THEN u \o u \o CleanPairs(SubSeq(s, 2 * n + 1, Len(s)))
             ELSE <<s[1]>> \o CleanPairs(Tail(s))

_clean(text) == CleanPairs(CleanRuns(CleanUrls(text)))

\* A message part: [mimeType, body, parts]; body is [data |-> text] or has no
\* data field (data = None).  body.data stands for the decoded text.
RECURSIVE get_message_text_from_payload(_)
RECURSIVE PartsText(_)
PartsText(parts) ==
    IF parts = <<>> THEN <<>>
    ELSE get_message_text_from_payload(Head(parts)) \o PartsText(Tail(parts))

get_message_text_from_payload(message_part) ==
    LET body == message_part.body
        raw == IF body.data # None /\ message_part.mimeType = "text/plain"
               THEN body.data
               ELSE <<>>
    IN  _clean(raw) \o PartsText(message_part.parts)

\* --------------------------------------------------- bip.email.chunker

CHUNK_HEADER_SEPARATOR == <<"\n", "--DEBUT EXTRAIT--", "\n">>
CHUNK_FOOTER_SEPARATOR == <<"\n", "--FIN EXTRAIT--", "\n">>

\* str(x) inside an f-string: None prints as "None"
Str(x) == IF x = None THEN <<"None">> ELSE x

\* `x if x else d`: None and the empty string are falsy
OrElse(x, d) == IF x = None \/ x = <<>> THEN d ELSE x

\* A metadata builder that numbers every chunk 0.
_create_chunk_metadata_unnumbered(chunk, msg, chunk_index) ==
    LET subject == get_header_value(msg.payload.headers, "Subject")
        date == msg.internalDate
    IN  [subject |-> OrElse(subject, <<"No subject">>),
         message_id |-> msg.id,
         date |-> OrElse(date, <<"No date">>),
         chunk_index |-> 0,
         thread_id |-> msg.threadId,
         source |-> OrElse(subject, <<"No subject">>),
         text |-> chunk]

_create_chunk_metadata(chunk, msg, chunk_index) ==
    LET subject == get_header_value(msg.payload.headers, "Subject")
        date == msg.internalDate
    IN  [subject |-> OrElse(subject, <<"No subject">>),
         message_id |-> msg.id,
         date |-> OrElse(date, <<"No date">>),
         chunk_index |-> chunk_index,
         thread_id |-> msg.threadId,
         source |-> OrElse(subject, <<"No subject">>),
         text |-> chunk]

\* datetime.utcfromtimestamp(int(date) / 1000).strftime('%A %d %B %Y') under
\* fr_FR, for the timestamps of January 1970 (the 1st was a Thursday).
WeekdaysFr ==
    <<"jeudi ", "vendredi ", "samedi ", "dimanche ", "lundi ", "mardi ", "mercredi ">>
DaysOfMonth == <<"01", "02", "03", "04", "05", "06", "07", "08", "09", "10">>
\* int(date), for the timestamps the model's messages carry
IntOf(date) ==
    CASE date = <<"0">> -> 0
      [] date = <<"86400001">> -> 86400001
      [] date = <<"172800002">> -> 172800002

FormatDate(date) ==
    LET day == IntOf(date) \div 86400000
    IN  <<WeekdaysFr[(day % 7) + 1], DaysOfMonth[day + 1], " janvier 1970">>

\* int(date) raises TypeError on None
EnrichRaises(msg) == msg.internalDate = None

_enrich_chunk(chunk, msg, index, total) ==
    LET subject == get_header_value(msg.payload.headers, "Subject")
        sender == get_header_value(msg.payload.headers, "From")
        recipients == get_header_value(msg.payload.headers, "To")
        formatted_date == FormatDate(msg.internalDate)
    IN  <<"Sujet: ">> \o Str(subject) \o CHUNK_HEADER_SEPARATOR
        \o chunk \o CHUNK_FOOTER_SEPARATOR
        \o <<"envoye par ">> \o Str(sender) \o <<" a ">> \o Str(recipients)
        \o <<" le ">> \o formatted_date

\* An overlap of a quarter of the chunk.
ChunkOverlapQuarter(size) == size \div 4

\* int(chunk_size / 8)
ChunkOverlap(size) == size \div 8

\* A step of the whole chunk: no overlap.
ChunkStepWhole(size) == size

ChunkStep(size) == size - ChunkOverlap(size)

_create_chunks(msg, size) ==
    LET message_text == get_message_text_from_payload(msg.payload)
        message_tokens == tokenize(message_text)
        starts == Range0(Len(message_tokens), ChunkStep(size))
    IN  [k \in 1..Len(starts) |->
            detokenize(Slice(message_tokens, starts[k], starts[k] + size))]

\* What a call of cut_message does: status "ok" with the two lists it returns,
\* or "raised"; `warnings` are the logging.warning calls, `enriched` and
\* `described` the numbers of _enrich_chunk and _create_chunk_metadata calls
\* that were started.
\* A test that never finds the message empty.
NoChunksNever(chunks) == FALSE

\* `not chunks`
NoChunks(chunks) == chunks = <<>>

cut_message(msg, size) ==
    LET chunks == _create_chunks(msg, size)
    IN  IF NoChunks(chunks)
        THEN [status |-> "ok", chunks |-> chunks,
              enriched_chunks |-> <<>>, chunks_metadatas |-> <<>>,
              warnings |-> <<"Empty message">>, enriched |-> 0, described |-> 0]
        ELSE IF chunks # <<>> /\ EnrichRaises(msg)
        THEN [status |-> "raised", chunks |-> chunks,
              enriched_chunks |-> <<>>, chunks_metadatas |-> <<>>,
              warnings |-> <<>>, enriched |-> 1, described |-> 0]
        ELSE LET enriched_chunks ==
                     [i \in 1..Len(chunks) |->
                         _enrich_chunk(chunks[i], msg, i - 1, Len(chunks))]
                 chunks_metadatas ==
                     [i \in 1..Len(chunks) |->
                         _create_chunk_metadata(enriched_chunks[i], msg, i - 1)]
             IN  [status |-> "ok", chunks |-> chunks,
                  enriched_chunks |-> enriched_chunks,
                  chunks_metadatas |-> chunks_metadatas,
                  warnings |-> <<>>,
                  enriched |-> Len(chunks), described |-> Len(chunks)]

\* str < str: Python orders strings lexeme by lexeme, a proper prefix first.
RECURSIVE TextLess(_, _)
TextLess(a, b) ==
    IF b = <<>> THEN FALSE
    ELSE IF a = <<>> THEN TRUE
    ELSE IF Head(a) = Head(b) THEN TextLess(Tail(a), Tail(b))
    ELSE TokenOf(Head(a)) < TokenOf(Head(b))

\* (index, chunk) < (index, chunk): tuples compare field by field
PairLess(p, q) == p[1] < q[1] \/ (p[1] = q[1] /\ TextLess(p[2], q[2]))

\* zip(a, b)
Zip(a, b) == [i \in 1..Min(Len(a), Len(b)) |-> <<a[i], b[i]>>]

\* Insertion of p after the elements that are not greater: a stable sort.
RECURSIVE Insert(_, _)
Insert(p, sorted) ==
    IF sorted = <<>> THEN <<p>>
    ELSE IF PairLess(p, Head(sorted)) THEN <<p>> \o sorted
    ELSE <<Head(sorted)>> \o Insert(p, Tail(sorted))

RECURSIVE InsertAll(_, _)
InsertAll(pairs, sorted) ==
    IF pairs = <<>> THEN sorted
    ELSE InsertAll(Tail(pairs), Insert(Head(pairs), sorted))

\* The pairs left in the order they came.
Unsorted(pairs) == pairs

\* sorted(pairs)
Sorted(pairs) == InsertAll(pairs, <<>>)

\* The last chunk of the list.
LastChunk(enriched_chunks) == enriched_chunks[Len(enriched_chunks)]

\* enriched_chunks[0]
FirstChunk(enriched_chunks) == enriched_chunks[1]

\* chunk.split(CHUNK_HEADER_SEPARATOR)[0]
HeaderText(chunk) == Split(chunk, CHUNK_HEADER_SEPARATOR)[1]

\* chunk.split(CHUNK_FOOTER_SEPARATOR)[1] raises IndexError without the marker
FooterRaises(chunk) == Len(Split(chunk, CHUNK_FOOTER_SEPARATOR)) < 2
FooterText(chunk) == Split(chunk, CHUNK_FOOTER_SEPARATOR)[2]

\* chunk.split(CHUNK_HEADER_SEPARATOR)[1] raises IndexError without the marker
CleanRaises(chunk) == Len(Split(chunk, CHUNK_HEADER_SEPARATOR)) < 2
CleanChunk(chunk) ==
    Split(Split(chunk, CHUNK_HEADER_SEPARATOR)[2], CHUNK_FOOTER_SEPARATOR)[1]

\* The selection loop: chunks are taken in the order given until one does
\* not fit, and the loop breaks there.
RECURSIVE SelectFrom(_, _, _)
SelectFrom(cleaned_chunks, total_tokens, max_tokens) ==
    IF cleaned_chunks = <<>> THEN <<>>
    ELSE LET chunk == Head(cleaned_chunks)
         IN  IF total_tokens + count_tokens(chunk) > max_tokens THEN <<>>
             ELSE <<chunk>> \o SelectFrom(Tail(cleaned_chunks),
                                          total_tokens + count_tokens(chunk),
                                          max_tokens)

\* A selection loop that skips a chunk that does not fit and goes on.
RECURSIVE SkipFrom(_, _, _)
SkipFrom(cleaned_chunks, total_tokens, max_tokens) ==
    IF cleaned_chunks = <<>> THEN <<>>
    ELSE LET chunk == Head(cleaned_chunks)
         IN  IF total_tokens + count_tokens(chunk) > max_tokens
             THEN SkipFrom(Tail(cleaned_chunks), total_tokens, max_tokens)
             ELSE <<chunk>> \o SkipFrom(Tail(cleaned_chunks),
                                        total_tokens + count_tokens(chunk),
                                        max_tokens)

SelectChunksSkipping(cleaned_chunks, total_tokens, max_tokens) ==
    SkipFrom(cleaned_chunks, total_tokens, max_tokens)

SelectChunks(cleaned_chunks, total_tokens, max_tokens) ==
    SelectFrom(cleaned_chunks, total_tokens, max_tokens)

\* What a call of glue_chunks does: status "ok" with the string it returns, or
\* "raised" (IndexError); `selected_chunks` is the local list before it is
\* sorted, `ordered_chunks` after.
glue_chunks(enriched_chunks, chumk_metadatas, keep_headfooter, max_tokens, delimiter) ==
    IF \/ enriched_chunks = <<>>
       \/ FooterRaises(FirstChunk(enriched_chunks))
       \/ \E i \in 1..Len(enriched_chunks) : CleanRaises(enriched_chunks[i])
    THEN [status |-> "raised", doc |-> <<>>,
          selected_chunks |-> <<>>, ordered_chunks |-> <<>>]
    ELSE LET header_text == HeaderText(FirstChunk(enriched_chunks))
             footer_text == FooterText(FirstChunk(enriched_chunks))
             chunk_indices == [i \in 1..Len(chumk_metadatas) |->
                                  chumk_metadatas[i].chunk_index]
             cleaned_chunks == [i \in 1..Len(enriched_chunks) |->
                                   CleanChunk(enriched_chunks[i])]
             total_tokens == IF keep_headfooter
                             THEN count_tokens(header_text) + count_tokens(footer_text)
                             ELSE 0
             selected_chunks == SelectChunks(cleaned_chunks, total_tokens, max_tokens)
             sorted_pairs == Sorted(Zip(chunk_indices, selected_chunks))
             ordered_chunks == [i \in 1..Len(sorted_pairs) |-> sorted_pairs[i][2]]
             head == IF keep_headfooter
                     THEN header_text \o CHUNK_HEADER_SEPARATOR ELSE <<>>
             foot == IF keep_headfooter
                     THEN CHUNK_FOOTER_SEPARATOR \o footer_text ELSE <<>>
         IN  [status |-> "ok",
              doc |-> head \o Join(ordered_chunks, delimiter) \o foot,
              selected_chunks |-> selected_chunks,
              ordered_chunks |-> ordered_chunks]

\* ------------------------------------------------------------- inputs

\* The first n lexemes of word repeated for ever.
Cycle(word, n) == [i \in 1..n |-> word[((i - 1) % Len(word)) + 1]]

Words ==
    { <<"a">>, <<"a", "b">>, <<"a", "b", "c">>,
      <<"a", "\n", "b", "c", "d">>, <<"http", "a", " ", "b", "c">>,
      <<"a", "\n", "--FIN EXTRAIT--", "\n", "b">>,
      <<"\n", "--DEBUT EXTRAIT--", "\n", "a", "b">> }

Headers(subject) ==
    (IF subject = None THEN <<>> ELSE <<[name |-> "Subject", value |-> subject]>>)
    \o <<[name |-> "From", value |-> <<"Ann">>], [name |-> "To", value |-> <<"Bob">>]>>

PlainPart(text) ==
    [mimeType |-> "text/plain", body |-> [data |-> text], parts |-> <<>>]

\* One text/plain part, or a multipart message whose two text/plain parts
\* hold the two halves of the text.
Payloads(subject, text) ==
    { [mimeType |-> "text/plain", headers |-> Headers(subject),
       body |-> [data |-> text], parts |-> <<>>],
      [mimeType |-> "multipart/mixed", headers |-> Headers(subject),
       body |-> [data |-> None],
       parts |-> <<PlainPart(SubSeq(text, 1, Len(text) \div 2)),
                   PlainPart(SubSeq(text, (Len(text) \div 2) + 1, Len(text)))>>] }

Envelopes ==
    { [id |-> "m1", threadId |-> "t1", subject |-> <<"Hello">>, internalDate |-> <<"0">>],
      [id |-> "m2", threadId |-> "t1", subject |-> None, internalDate |-> <<"86400001">>],
      [id |-> "m3", threadId |-> "t2", subject |-> <<"Bye">>, internalDate |-> None] }

\* --------------------------------------------------------- chunk_id

Digits == <<"0", "1", "2", "3", "4", "5", "6", "7", "8", "9">>

\* str(n) for an int n >= 0: its decimal digits, most significant first
RECURSIVE DecimalDigits(_)
DecimalDigits(n) ==
    IF n < 10 THEN <<Digits[n + 1]>>
    ELSE DecimalDigits(n \div 10) \o <<Digits[(n % 10) + 1]>>

\* An id that runs the message id and the index together.
chunk_id_unseparated(message_id, chunk_index) ==
    Str(message_id) \o DecimalDigits(chunk_index)

\* f"{message_id}-{chunk_index}"
chunk_id(message_id, chunk_index) ==
    Str(message_id) \o <<"-">> \o DecimalDigits(chunk_index)

\* ------------------------------------------------- cut_message, one call

NoCall == [status |-> "none"]

InitCut ==
    /\ pc = "cut"
    /\ message \in UNION { { [id |-> e.id, threadId |-> e.threadId,
                               internalDate |-> e.internalDate, payload |-> p] :
                               p \in UNION { Payloads(e.subject, Cycle(w, n)) :
                                               w \in Words, n \in 0..MaxLen } } :
                           e \in Envelopes }
    /\ chunk_size \in 1..MaxChunkSize
    /\ cut_out = NoCall
    /\ glue_in = NoCall
    /\ glue_out = NoCall
    /\ id_in = NoCall
    /\ id_out = NoCall
    /\ mailbox = <<>>
    /\ _index = {}
    /\ run = NoCall

CutMessage ==
    /\ pc = "cut"
    /\ cut_out' = cut_message(message, chunk_size)
    /\ pc' = "done"
    /\ UNCHANGED <<message, chunk_size, glue_in, glue_out, id_in, id_out, mailbox, _index, run>>

NextCut == CutMessage

SpecCut == InitCut /\ [][NextCut]_vars

\* ------------------------------------------------- glue_chunks, one call

\* The messages whose chunks the index holds, cut with chunk_size 2.
StoredMessages ==
    { [id |-> "m1", threadId |-> "t1", internalDate |-> <<"0">>,
       payload |-> [mimeType |-> "text/plain", headers |-> Headers(<<"Hello">>),
                    body |-> [data |-> <<"a", "b", "c">>], parts |-> <<>>]],
      [id |-> "m2", threadId |-> "t2", internalDate |-> <<"86400001">>,
       payload |-> [mimeType |-> "text/plain", headers |-> Headers(None),
                    body |-> [data |-> <<"b", "a", "c", "d", "a">>], parts |-> <<>>]] }

\* The (enriched chunk, metadata) pairs cut_message makes of a message.
StoredChunks(msg) ==
    LET cut == cut_message(msg, 2)
    IN  { [text |-> cut.enriched_chunks[i], metadata |-> cut.chunks_metadatas[i]] :
            i \in 1..Len(cut.enriched_chunks) }

\* s without the first occurrence of sep.
RemoveFirst(s, sep) ==
    LET i == Find(s, sep)
    IN  IF i = 0 THEN s
        ELSE SubSeq(s, 1, i - 1) \o SubSeq(s, i + Len(sep), Len(s))

\* Stored chunks whose text lost one of its markers.
CorruptChunks ==
    UNION { { [text |-> RemoveFirst(c.text, CHUNK_HEADER_SEPARATOR),
               metadata |-> c.metadata],
              [text |-> RemoveFirst(c.text, CHUNK_FOOTER_SEPARATOR),
               metadata |-> c.metadata] } :
            c \in { d \in UNION { StoredChunks(m) : m \in StoredMessages } :
                      d.metadata.message_id = "m1" /\ d.metadata.chunk_index = 1 } }

RetrievedChunks == UNION { StoredChunks(m) : m \in StoredMessages } \cup CorruptChunks

Delimiters == { <<"\n", "---", "\n">>, <<>> }

InitGlue ==
    /\ pc = "glue"
    /\ message = NoCall
    /\ chunk_size = 0
    /\ cut_out = NoCall
    /\ \E n \in 0..MaxRanked :
         \E ranked \in [1..n -> RetrievedChunks] :
           \E keep \in BOOLEAN, budget \in 0..MaxTokens, delimiter \in Delimiters :
             glue_in = [status |-> "called",
                        enriched_chunks |-> [i \in 1..n |-> ranked[i].text],
                        chumk_metadatas |-> [i \in 1..n |-> ranked[i].metadata],
                        keep_headfooter |-> keep,
                        max_tokens |-> budget,
                        delimiter |-> delimiter]
    /\ glue_out = NoCall
    /\ id_in = NoCall
    /\ id_out = NoCall
    /\ mailbox = <<>>
    /\ _index = {}
    /\ run = NoCall

GlueChunks ==
    /\ pc = "glue"
    /\ glue_out' = glue_chunks(glue_in.enriched_chunks, glue_in.chumk_metadatas,
                               glue_in.keep_headfooter, glue_in.max_tokens,
                               glue_in.delimiter)
    /\ pc' = "done"
    /\ UNCHANGED <<message, chunk_size, cut_out, glue_in, id_in, id_out, mailbox, _index, run>>

NextGlue == GlueChunks

SpecGlue == InitGlue /\ [][NextGlue]_vars

\* ---------------------------------------------------- chunk_id, two calls

\* The characters of a message id: a letter, a digit and the separator.
IdChars == {"a", "1", "-"}

MessageIds == UNION { [1..n -> IdChars] : n \in 0..MaxIdLen }

IdArguments == [message_id : MessageIds, chunk_index : 0..MaxIndex]

InitId ==
    /\ pc = "id"
    /\ message = NoCall
    /\ chunk_size = 0
    /\ cut_out = NoCall
    /\ glue_in = NoCall
    /\ glue_out = NoCall
    /\ id_in \in [first : IdArguments, second : IdArguments]
    /\ id_out = NoCall
    /\ mailbox = <<>>
    /\ _index = {}
    /\ run = NoCall

\* chunk_id(first), chunk_id(second), and chunk_id(first) once more
ChunkId ==
    /\ pc = "id"
    /\ id_out' = [first |-> chunk_id(id_in.first.message_id, id_in.first.chunk_index),
                  second |-> chunk_id(id_in.second.message_id, id_in.second.chunk_index),
                  again |-> chunk_id(id_in.first.message_id, id_in.first.chunk_index)]
    /\ pc' = "done"
    /\ UNCHANGED <<message, chunk_size, cut_out, glue_in, glue_out, id_in, mailbox, _index, run>>

NextId == ChunkId

SpecId == InitId /\ [][NextId]_vars

\* ------------------------------------------------ bip.email.retriever

UPSERT_BATCH_SIZE == 100
\* the batch_size of email_batches_by_dates, the `chunk_size` of cut_message
\* and the size of an embedding request, where the callers pass none
DEFAULT_BATCH_SIZE == 100
DEFAULT_CHUNK_SIZE == 256
EMBED_BATCH_SIZE == 512

\* self._namespace
_namespace == "user@example.com"

\* [s[i:i + size] for i in range(0, len(s), size)]
Groups(s, size) ==
    LET starts == Range0(Len(s), size)
    IN  [k \in 1..Len(starts) |-> Slice(s, starts[k], starts[k] + size)]

\* The lists of a list, one after the other.
RECURSIVE Concat(_)
Concat(lists) ==
    IF lists = <<>> THEN <<>> ELSE Head(lists) \o Concat(Tail(lists))

\* bip.utils.embed: one vector per text, in order, the same for the same text.
embed(texts) == [i \in 1..Len(texts) |-> [embedding_of |-> texts[i]]]

\* index.fetch(ids, namespace)['vectors']
Fetch(idx, ids, namespace) ==
    { v \in idx : v.namespace = namespace /\ v.id \in ids }

\* index.upsert(vectors, namespace): a vector replaces the one of its id
Upsert(idx, vectors, namespace) ==
    { v \in idx : ~(/\ v.namespace = namespace
                    /\ \E i \in 1..Len(vectors) : vectors[i].id = v.id) }
    \cup { [namespace |-> namespace, id |-> vectors[i].id,
            values |-> vectors[i].values, metadata |-> vectors[i].metadata] :
            i \in 1..Len(vectors) }

_already_fully_stored(idx, email_batch) ==
    LET first_id == chunk_id(email_batch[1].id, 0)
        last_id == chunk_id(email_batch[Len(email_batch)].id, 0)
    IN  /\ Fetch(idx, {first_id}, _namespace) # {}
        /\ Fetch(idx, {last_id}, _namespace) # {}

\* The index after the first k upsert calls of _store_chunks.
RECURSIVE UpsertGroups(_, _, _)
UpsertGroups(idx, groups, k) ==
    IF k = 0 THEN idx
    ELSE Upsert(UpsertGroups(idx, groups, k - 1), groups[k], _namespace)

\* `fail` is the upsert call of this _store_chunks that raises (0: none does).
_store_chunks(idx, chunks, fail) ==
    LET groups == Groups(chunks, UPSERT_BATCH_SIZE)
        raises == fail \in 1..Len(groups)
        done == IF raises THEN fail - 1 ELSE Len(groups)
    IN  [status |-> IF raises THEN "raised" ELSE "ok",
         idx |-> UpsertGroups(idx, groups, done),
         upserted |-> done]

\* chunk_vector_batches: one embedding request for every EMBED_BATCH_SIZE texts
ChunkVectorBatches(enriched_chunks) ==
    LET texts == Groups(enriched_chunks, EMBED_BATCH_SIZE)
    IN  [g \in 1..Len(texts) |-> embed(texts[g])]

\* full_chunk_data: the id, the vector and the metadata of every chunk
FullChunkData(chunk_vectors, metadatas) ==
    [i \in 1..Min(Len(chunk_vectors), Len(metadatas)) |->
        [id |-> chunk_id(metadatas[i].message_id, metadatas[i].chunk_index),
         values |-> chunk_vectors[i],
         metadata |-> metadatas[i]]]

\* _cut_messages once every message is cut: `cuts` are the cut_message calls.
EmbedCuts(cuts) ==
    IF \E i \in 1..Len(cuts) : cuts[i].status = "raised"
    THEN [status |-> "raised", full_chunk_data |-> <<>>, embedded |-> 0]
    ELSE LET enriched_chunks == Concat([i \in 1..Len(cuts) |-> cuts[i].enriched_chunks])
             metadatas == Concat([i \in 1..Len(cuts) |-> cuts[i].chunks_metadatas])
             chunk_vector_batches == ChunkVectorBatches(enriched_chunks)
         IN  [status |-> "ok",
              full_chunk_data |->
                  FullChunkData(Concat(chunk_vector_batches), metadatas),
              embedded |-> Len(chunk_vector_batches)]

_cut_messages(email_batch) ==
    EmbedCuts([i \in 1..Len(email_batch) |->
                  cut_message(email_batch[i], DEFAULT_CHUNK_SIZE)])

\* int(email_batch[0]['internalDate']) raises TypeError on None
BatchDateRaises(email_batch) == email_batch[1].internalDate = None

\* _store_email_batch once the batch is cut: `cut` is the _cut_messages call.
StoreCut(idx, cut, fail) ==
    LET stored == _store_chunks(idx, cut.full_chunk_data, fail)
    IN  IF cut.status = "raised"
        THEN [status |-> "raised", idx |-> idx, embedded |-> 0, upserted |-> 0]
        ELSE [status |-> stored.status, idx |-> stored.idx,
              embedded |-> cut.embedded, upserted |-> stored.upserted]

_store_email_batch(idx, email_batch, fail) ==
    IF BatchDateRaises(email_batch)
    THEN [status |-> "raised", idx |-> idx, embedded |-> 0, upserted |-> 0]
    ELSE StoreCut(idx, _cut_messages(email_batch), fail)

\* The day of January 1970 a message was received.
DayOf(msg) == IntOf(msg.internalDate) \div 86400000

\* messages.list(q="after:start before:end"): the messages received from
\* `start_date` on and before `end_date`, newest first.
RECURSIVE ListMessages(_, _, _)
ListMessages(box, start_date, end_date) ==
    IF box = <<>> THEN <<>>
    ELSE (IF start_date <= DayOf(Head(box)) /\ DayOf(Head(box)) < end_date
          THEN <<Head(box)>> ELSE <<>>)
         \o ListMessages(Tail(box), start_date, end_date)

\* The batches email_batches_by_dates yields, the server answering in pages
\* of `page_size` messages.
email_batches_by_dates(box, start_date, end_date, page_size) ==
    LET pages == Groups(ListMessages(box, start_date, end_date), page_size)
    IN  Concat([p \in 1..Len(pages) |-> Groups(pages[p], DEFAULT_BATCH_SIZE)])

\* The loop of update_email_index from batch k on; `fail` is the upsert call
\* of the whole run that raises (0: none does).
RECURSIVE UpdateFrom(_, _, _, _)

\* The rest of the loop after batch k was handed to _store_email_batch,
\* `out` being what that call did.
AfterStore(batches, k, acc, fail, out) ==
    LET next == [acc EXCEPT !.idx = out.idx,
                            !.embedded = @ + out.embedded,
                            !.upserted = @ + out.upserted]
    IN  IF out.status = "raised"
        THEN [next EXCEPT !.status = "raised"]
        ELSE UpdateFrom(batches, k + 1, [next EXCEPT !.stored = @ + 1], fail)

UpdateFrom(batches, k, acc, fail) ==
    IF k > Len(batches) THEN acc
    ELSE IF BatchDateRaises(batches[k]) THEN [acc EXCEPT !.status = "raised"]
    ELSE IF _already_fully_stored(acc.idx, batches[k])
    THEN UpdateFrom(batches, k + 1, [acc EXCEPT !.skipped = @ + 1], fail)
    ELSE AfterStore(batches, k, acc, fail,
                    _store_email_batch(
                        acc.idx, batches[k],
                        IF fail > acc.upserted THEN fail - acc.upserted ELSE 0))

\* `no_messages_key` tells whether the server leaves 'messages' out of an
\* answer that lists no message, which makes response['messages'] raise.
update_email_index(idx, box, start_date, end_date, page_size, fail, no_messages_key) ==
    LET start == [status |-> "completed", idx |-> idx, embedded |-> 0,
                  upserted |-> 0, skipped |-> 0, stored |-> 0]
    IN  IF ListMessages(box, start_date, end_date) = <<>> /\ no_messages_key
        THEN [start EXCEPT !.status = "raised"]
        ELSE UpdateFrom(email_batches_by_dates(box, start_date, end_date, page_size),
                        1, start, fail)

\* ------------------------------------- update_email_index, call after call

\* The bodies of the account's messages: none, or one chunk of text.
Bodies == { <<>>, <<"a", "b">> }

Mail(id, date, text) ==
    [id |-> id, threadId |-> "t1", internalDate |-> date,
     payload |-> [mimeType |-> "text/plain", headers |-> Headers(<<"Hello">>),
                  body |-> [data |-> text], parts |-> <<>>]]

\* Three messages received on three days, newest first.
Mailboxes ==
    { <<Mail(<<"a">>, <<"172800002">>, t[1]), Mail(<<"b">>, <<"86400001">>, t[2]),
        Mail(<<"c">>, <<"0">>, t[3])>> :
      t \in [1..3 -> Bodies] }

\* The days a date range starts and ends on.
Days == 0..3

\* The number of messages in a page of the server's answer.
PageSizes == {2, 100}

InitIndex ==
    /\ pc = "index"
    /\ message = NoCall
    /\ chunk_size = 0
    /\ cut_out = NoCall
    /\ glue_in = NoCall
    /\ glue_out = NoCall
    /\ id_in = NoCall
    /\ id_out = NoCall
    /\ mailbox \in Mailboxes
    /\ _index = {}
    /\ run = NoCall

\* One call of update_email_index, to its return or to the exception that
\* ends it.  `run` keeps what the call did, and whether the call before it
\* had completed over the same range with the same paging.
UpdateEmailIndex ==
    /\ pc = "index"
    /\ \E start_date \in Days, end_date \in Days, page_size \in PageSizes,
          no_messages_key \in BOOLEAN :
         /\ start_date < end_date
         /\ \E fail \in 0..update_email_index(_index, mailbox, start_date, end_date,
                                               page_size, 0, no_messages_key).upserted :
              \E out \in {update_email_index(_index, mailbox, start_date, end_date,
                                             page_size, fail, no_messages_key)} :
                  /\ _index' = out.idx
                  /\ run' = [status |-> out.status,
                             start_date |-> start_date, end_date |-> end_date,
                             page_size |-> page_size,
                             embedded |-> out.embedded, upserted |-> out.upserted,
                             skipped |-> out.skipped, stored |-> out.stored,
                             index_changed |-> out.idx # _index,
                             rerun |-> /\ run # NoCall
                                       /\ run.status = "completed"
                                       /\ run.start_date = start_date
                                       /\ run.end_date = end_date
                                       /\ run.page_size = page_size]
    /\ UNCHANGED <<pc, message, chunk_size, cut_out, glue_in, glue_out,
                   id_in, id_out, mailbox>>

NextIndex == UpdateEmailIndex

SpecIndex == InitIndex /\ [][NextIndex]_vars

\* ------------------------------------------------ claims on cut_message

\* The token stream _create_chunks cuts.
MessageTokens == tokenize(get_message_text_from_payload(message.payload))

CutReturned == cut_out.status # "none"

\* Chunk k (0-based) is the truncated final chunk.
TruncatedFinal(k) ==
    /\ k = Len(cut_out.chunks) - 1
    /\ Len(tokenize(cut_out.chunks[k + 1])) < chunk_size

\* C4: for a token stream of length L and chunk_size C >= 1, with
\* step = C - floor(C/8), _create_chunks returns ceil(L/step) chunks (none
\* when L = 0), the k-th being the detokenized slice
\* tokens[k*step : min(k*step + C, L)]; every token position is covered by a
\* chunk and the last chunk is not padded.
C4_ChunksAreTheSteppedSlices ==
    CutReturned =>
        LET tokens == MessageTokens
            L == Len(tokens)
            C == chunk_size
            step == C - (C \div 8)
            n == Len(cut_out.chunks)
        IN  /\ n * step >= L
            /\ n > 0 => (n - 1) * step < L
            /\ L = 0 => n = 0
            /\ \A k \in 0..(n - 1) :
                   cut_out.chunks[k + 1] =
                       detokenize(SubSeq(tokens, k * step + 1,
                                         Min(k * step + C, L)))
            /\ \A pos \in 1..L :
                   \E k \in 0..(n - 1) : k * step < pos /\ pos <= k * step + C
            /\ n > 0 => Len(cut_out.chunks[n]) = L - (n - 1) * step

\* C4's case: 20 tokens cut with chunk_size 16 (overlap 2, step 14) into the
\* slices [0:16] and [14:20], the second 6 tokens long.
C4_Witness ==
    /\ CutReturned
    /\ chunk_size = 16
    /\ Len(MessageTokens) = 20
    /\ Len(cut_out.chunks) = 2
    /\ Len(cut_out.chunks[1]) = 16
    /\ Len(cut_out.chunks[2]) = 6

\* C5: for consecutive chunks i and i+1 of one message, neither of them the
\* truncated final chunk, the last floor(C/8) tokens of chunk i are, position
\* by position, the first floor(C/8) tokens of chunk i+1.
C5_ConsecutiveChunksOverlap ==
    CutReturned =>
        LET ov == chunk_size \div 8
        IN  \A k \in 0..(Len(cut_out.chunks) - 2) :
                (~TruncatedFinal(k) /\ ~TruncatedFinal(k + 1)) =>
                    LET a == tokenize(cut_out.chunks[k + 1])
                        b == tokenize(cut_out.chunks[k + 2])
                    IN  /\ Len(a) >= ov
                        /\ Len(b) >= ov
                        /\ \A j \in 1..ov : a[Len(a) - ov + j] = b[j]

\* C5's case: an overlap of two tokens between two chunks that are not the
\* truncated final one, holding different tokens.
C5_Witness ==
    /\ CutReturned
    /\ chunk_size \div 8 = 2
    /\ \E k \in 0..(Len(cut_out.chunks) - 2) :
           /\ ~TruncatedFinal(k)
           /\ ~TruncatedFinal(k + 1)
           /\ cut_out.chunks[k + 2][1] # cut_out.chunks[k + 2][2]

\* C6: cut_message returns two sequences E and M of equal length where, for
\* every i, M[i].chunk_index = i, M[i].message_id is the message's id and
\* M[i].text is the enriched chunk E[i].
C6_MetadataAligned ==
    cut_out.status = "ok" =>
        LET E == cut_out.enriched_chunks
            M == cut_out.chunks_metadatas
        IN  /\ Len(E) = Len(M)
            /\ \A i \in 1..Len(M) :
                   /\ M[i].chunk_index = i - 1
                   /\ M[i].message_id = message.id
                   /\ M[i].text = E[i]

\* C6's case: a message cut into at least three chunks.
C6_Witness ==
    /\ cut_out.status = "ok"
    /\ Len(cut_out.chunks_metadatas) >= 3
    /\ cut_out.enriched_chunks[1] # cut_out.enriched_chunks[2]

\* C7: stripping the header and footer markers from _enrich_chunk's output
\* the way glue_chunks does recovers exactly the raw chunk text, for every
\* raw chunk text and every message.
C7_StripRecoversRawChunk ==
    cut_out.status = "ok" =>
        \A i \in 1..Len(cut_out.chunks) :
            /\ ~CleanRaises(cut_out.enriched_chunks[i])
            /\ CleanChunk(cut_out.enriched_chunks[i]) = cut_out.chunks[i]

\* C10: when the message body yields zero tokens, cut_message returns two
\* empty sequences and raises nothing, the condition is logged as a warning,
\* and no enrichment or metadata step runs.
C10_EmptyMessageIsSkipped ==
    (CutReturned /\ Len(MessageTokens) = 0) =>
        /\ cut_out.status = "ok"
        /\ cut_out.enriched_chunks = <<>>
        /\ cut_out.chunks_metadatas = <<>>
        /\ cut_out.warnings = <<"Empty message">>
        /\ cut_out.enriched = 0
        /\ cut_out.described = 0

\* C10's case: an empty message, one whose timestamp is absent, so that an
\* enrichment step would have raised.
C10_Witness ==
    /\ CutReturned
    /\ Len(MessageTokens) = 0
    /\ message.internalDate = None
    /\ cut_out.status = "ok"

\* ------------------------------------------------ claims on glue_chunks

GlueCalled == glue_out.status # "none"
GlueReturned == glue_out.status = "ok"

HasHeaderMarker(chunk) == Find(chunk, CHUNK_HEADER_SEPARATOR) > 0
HasFooterMarker(chunk) == Find(chunk, CHUNK_FOOTER_SEPARATOR) > 0

\* The ranked input is not empty and every element holds both markers.
WellFormedInput ==
    /\ glue_in.enriched_chunks # <<>>
    /\ \A i \in 1..Len(glue_in.enriched_chunks) :
           /\ HasHeaderMarker(glue_in.enriched_chunks[i])
           /\ HasFooterMarker(glue_in.enriched_chunks[i])

\* The text before the header marker, the text after the footer marker.
HeaderSection(chunk) == SubSeq(chunk, 1, Find(chunk, CHUNK_HEADER_SEPARATOR) - 1)
FooterSection(chunk) ==
    SubSeq(chunk, Find(chunk, CHUNK_FOOTER_SEPARATOR) + Len(CHUNK_FOOTER_SEPARATOR),
           Len(chunk))

\* The body of the i-th ranked chunk and its token count.
RankedBody(i) == CleanChunk(glue_in.enriched_chunks[i])

\* The running total after the first k ranked chunks.
RECURSIVE RunningTotal(_)
RunningTotal(k) ==
    IF k = 0
    THEN IF glue_in.keep_headfooter
         THEN count_tokens(HeaderSection(glue_in.enriched_chunks[1]))
              + count_tokens(FooterSection(glue_in.enriched_chunks[1]))
         ELSE 0
    ELSE RunningTotal(k - 1) + count_tokens(RankedBody(k))

Orderings(n) ==
    { f \in [1..n -> 1..n] : \A i, j \in 1..n : f[i] = f[j] => i = j }

\* C1: for a well-formed ranked input, the string glue_chunks returns counts
\* at most max_tokens tokens (header, markers, delimiters, bodies, footer).
C1_OutputWithinBudget ==
    (GlueReturned /\ WellFormedInput) =>
        count_tokens(glue_out.doc) <= glue_in.max_tokens

\* C2: glue_chunks accepts exactly the longest prefix of the ranked chunks
\* whose running total (from count(header) + count(footer) when
\* keep_headfooter, else 0) stays <= max_tokens: it stops at the first chunk
\* that overflows and accepts none ranked after it.
C2_AcceptsLongestFittingPrefix ==
    (GlueReturned /\ WellFormedInput) =>
        LET n == Len(glue_out.selected_chunks)
        IN  /\ n <= Len(glue_in.enriched_chunks)
            /\ \A k \in 1..n :
                   /\ glue_out.selected_chunks[k] = RankedBody(k)
                   /\ RunningTotal(k) <= glue_in.max_tokens
            /\ n < Len(glue_in.enriched_chunks) =>
                   RunningTotal(n + 1) > glue_in.max_tokens
            /\ Len(glue_out.ordered_chunks) = n

\* C2's case: three ranked chunks of which the first is accepted, the second
\* overflows, and the third, which would fit with the first, is left out.
C2_Witness ==
    /\ GlueReturned
    /\ WellFormedInput
    /\ Len(glue_in.enriched_chunks) = 3
    /\ Len(glue_out.selected_chunks) = 1
    /\ RunningTotal(1) + count_tokens(RankedBody(3)) <= glue_in.max_tokens

\* The returned string without its shared header and footer.
StitchedBodies ==
    LET first == glue_in.enriched_chunks[1]
        h == IF glue_in.keep_headfooter
             THEN Len(HeaderSection(first)) + Len(CHUNK_HEADER_SEPARATOR) ELSE 0
        f == IF glue_in.keep_headfooter
             THEN Len(CHUNK_FOOTER_SEPARATOR) + Len(FooterSection(first)) ELSE 0
    IN  SubSeq(glue_out.doc, h + 1, Len(glue_out.doc) - f)

\* C3: the bodies stitched into the output are the accepted chunks, each once
\* and each with the chunk_index of its own metadata, in ascending
\* chunk_index whatever their rank order was.
C3_BodiesInIndexOrder ==
    (GlueReturned /\ WellFormedInput) =>
        LET n == Len(glue_out.selected_chunks)
        IN  \E f \in Orderings(n) :
                /\ \A i, j \in 1..n :
                       i < j => glue_in.chumk_metadatas[f[i]].chunk_index
                                    <= glue_in.chumk_metadatas[f[j]].chunk_index
                /\ StitchedBodies =
                       Join([i \in 1..n |-> RankedBody(f[i])], glue_in.delimiter)

\* C3's case: three accepted chunks ranked in descending chunk_index come out
\* in the reverse of their rank order.
C3_Witness ==
    /\ GlueReturned
    /\ WellFormedInput
    /\ Len(glue_out.selected_chunks) = 3
    /\ glue_in.chumk_metadatas[1].chunk_index > glue_in.chumk_metadatas[2].chunk_index
    /\ glue_in.chumk_metadatas[2].chunk_index > glue_in.chumk_metadatas[3].chunk_index
    /\ StitchedBodies =
           Join(<<RankedBody(3), RankedBody(2), RankedBody(1)>>, glue_in.delimiter)
    /\ RankedBody(3) # RankedBody(1)

\* C8: glue_chunks raises, and returns no document, whenever the ranked list
\* is empty or any element of it lacks the header marker or the footer marker.
C8_MalformedInputRaises ==
    (/\ GlueCalled
     /\ \/ glue_in.enriched_chunks = <<>>
        \/ \E i \in 1..Len(glue_in.enriched_chunks) :
               \/ ~HasHeaderMarker(glue_in.enriched_chunks[i])
               \/ ~HasFooterMarker(glue_in.enriched_chunks[i]))
    => glue_out.status = "raised"

\* C9: the shared header and footer are the header section and the footer
\* section of the first ranked chunk; the output is header + HEADER_MARKER,
\* the bodies joined by the delimiter, FOOTER_MARKER + footer when
\* keep_headfooter, and only the joined bodies otherwise.
C9_HeaderFooterOfFirstRanked ==
    (GlueReturned /\ WellFormedInput) =>
        LET first == glue_in.enriched_chunks[1]
            bodies == Join(glue_out.ordered_chunks, glue_in.delimiter)
        IN  glue_out.doc =
                IF glue_in.keep_headfooter
                THEN HeaderSection(first) \o CHUNK_HEADER_SEPARATOR \o bodies
                     \o CHUNK_FOOTER_SEPARATOR \o FooterSection(first)
                ELSE bodies

\* C9's case: header and footer are kept, and the chunk that comes first
\* after reordering is not the first ranked chunk and has another header.
C9_Witness ==
    /\ GlueReturned
    /\ WellFormedInput
    /\ glue_in.keep_headfooter
    /\ Len(glue_out.selected_chunks) = 2
    /\ glue_in.chumk_metadatas[2].chunk_index < glue_in.chumk_metadatas[1].chunk_index
    /\ glue_out.ordered_chunks[1] = RankedBody(2)
    /\ HeaderSection(glue_in.enriched_chunks[1]) # HeaderSection(glue_in.enriched_chunks[2])

\* --------------------------------------------------- claims on chunk_id

IdReturned == pc = "done" /\ id_out # NoCall

\* C11: chunk_id is a function of (message_id, chunk_index): the same
\* arguments give the same id, and two distinct pairs (message_id, index),
\* the indices being non-negative integers, never give the same id.
C11_ChunkIdInjective ==
    IdReturned =>
        /\ id_out.again = id_out.first
        /\ (id_in.first # id_in.second => id_out.first # id_out.second)

\* Two distinct pairs whose ids differ only in where the separator falls:
\* the first message id is the second followed by "-1", or by "1".
C11_Witness ==
    /\ IdReturned
    /\ id_in.first # id_in.second
    /\ id_in.second.message_id # <<>>
    /\ \/ id_in.first.message_id = id_in.second.message_id \o <<"-">>
       \/ id_in.first.message_id = id_in.second.message_id \o <<"1">>
    /\ id_in.first.chunk_index = 1
    /\ id_in.second.chunk_index = 11

\* ------------------------------------- claims on cut_message's fallbacks

\* C12: cut_message on a message with a non-empty body whose Subject header
\* is absent, or whose timestamp is absent, completes without error, and
\* every metadata it yields has the subject "No subject", respectively the
\* date "No date".
C12_AbsentFieldsFallBack ==
    (CutReturned /\ MessageTokens # <<>>) =>
        /\ get_header_value(message.payload.headers, "Subject") = None =>
               /\ cut_out.status = "ok"
               /\ cut_out.chunks_metadatas # <<>>
               /\ \A i \in 1..Len(cut_out.chunks_metadatas) :
                      cut_out.chunks_metadatas[i].subject = <<"No subject">>
        /\ message.internalDate = None =>
               /\ cut_out.status = "ok"
               /\ cut_out.chunks_metadatas # <<>>
               /\ \A i \in 1..Len(cut_out.chunks_metadatas) :
                      cut_out.chunks_metadatas[i].date = <<"No date">>

\* ------------------------------------- claims on glue_chunks's tie order

\* The rank positions of the n accepted chunks, in ascending chunk_index,
\* those of equal chunk_index in their rank order.
StableOrder(n) ==
    CHOOSE f \in Orderings(n) :
        \A i, j \in 1..n :
            i < j =>
                \/ glue_in.chumk_metadatas[f[i]].chunk_index
                       < glue_in.chumk_metadatas[f[j]].chunk_index
                \/ /\ glue_in.chumk_metadatas[f[i]].chunk_index
                          = glue_in.chumk_metadatas[f[j]].chunk_index
                   /\ f[i] < f[j]

\* Two accepted chunks carry the same chunk_index.
IndexCollision ==
    \E i, j \in 1..Len(glue_out.selected_chunks) :
        /\ i < j
        /\ glue_in.chumk_metadatas[i].chunk_index
               = glue_in.chumk_metadatas[j].chunk_index

\* C13: when two accepted chunks carry the same chunk_index, glue_chunks
\* does not fail and puts the accepted chunks out in ascending chunk_index,
\* those of equal chunk_index in their rank order and in no other.
C13_TiesKeepRankOrder ==
    (GlueCalled /\ WellFormedInput) =>
        /\ glue_out.status = "ok"
        /\ IndexCollision =>
               LET n == Len(glue_out.selected_chunks)
               IN  glue_out.ordered_chunks =
                       [i \in 1..n |-> RankedBody(StableOrder(n)[i])]

\* ----------------------------------------- claims on update_email_index

\* The batches update_email_index can be handed over the mailbox.
PossibleBatches ==
    UNION { { email_batches_by_dates(mailbox, d[1], d[2], page_size)[k] :
                k \in 1..Len(email_batches_by_dates(mailbox, d[1], d[2], page_size)) } :
            d \in { e \in Days \X Days : e[1] < e[2] }, page_size \in PageSizes }

\* Every chunk of every message of the batch is in the index.
EveryChunkStored(email_batch) ==
    LET chunks == _cut_messages(email_batch).full_chunk_data
    IN  \A i \in 1..Len(chunks) : Fetch(_index, {chunks[i].id}, _namespace) # {}

\* C14: in every index state reached from the empty index by update_email_index
\* calls over any date ranges, some of them ended by a failing upsert,
\* _already_fully_stored(batch) holds only if every chunk of every message of
\* the batch is in the index under the user's namespace.
C14_SkippedBatchIsFullyStored ==
    \A email_batch \in PossibleBatches :
        _already_fully_stored(_index, email_batch) => EveryChunkStored(email_batch)

\* C15: a call of update_email_index that follows a completed call over the
\* same date range, on the same mailbox, skips every batch: it makes no
\* embedding request and no upsert, and leaves the index as it was.
C15_RerunSkipsEveryBatch ==
    (run # NoCall /\ run.rerun /\ run.status = "completed") =>
        /\ run.embedded = 0
        /\ run.upserted = 0
        /\ ~run.index_changed

====
